---- MODULE Spec2Model ----
(***************************************************************************)
(* A model of nelpy/objects.py: the EpochArray interval algebra and the    *)
(* SpikeTrain type that is restricted to an EpochArray support.            *)
(*                                                                         *)
(* Numbers.  Sample and time coordinates are floats in the source; the     *)
(* model keeps the integer ones.  A rate is applied (samples / fs) only    *)
(* where the quotient is an integer again, which Exact states in the       *)
(* guards of the actions; for these values the float division is exact.    *)
(***************************************************************************)
EXTENDS Integers, Sequences, FiniteSets, TLC

VARIABLES
    x,      \* the EpochArray the caller holds
    y,      \* a second operand
    z,      \* a third operand; each specification says what else it keeps here
    r,      \* the result of the last operation on operands, or what was before it
    st,     \* the SpikeTrain the caller holds
    op,     \* the last operation
    err,    \* what it raised
    arg     \* its argument

vars == <<x, y, z, r, st, op, err, arg>>

(***************************************************************************)
(* Bounds of the model.                                                    *)
(***************************************************************************)
MaxT == 2
MaxLen == 2
MaxMerge == 3
MaxOther == 1

Times == 0..MaxT

Max(a, b) == IF a >= b THEN a ELSE b
Min(a, b) == IF a <= b THEN a ELSE b

(***************************************************************************)
(* The fs argument: None, a scalar, or something that is not a scalar.     *)
(***************************************************************************)
NoFs == [kind |-> "none", val |-> 0]
Scalar(v) == [kind |-> "scalar", val |-> v]
NonScalar == [kind |-> "nonscalar", val |-> 0]

(***************************************************************************)
(* Exceptions, by type and message.                                        *)
(***************************************************************************)
NoErr == "ok"
ErrPositive == "ValueError: sampling rate must be positive"
ErrScalar == "TypeError: sampling rate must be a scalar"
ErrCompare == "TypeError: '<=' not supported"
ErrDurationPairs == "ValueError: duration not allowed when using start and stop times"
ErrDurationLen == "ValueError: must have same number of time and duration samples"
ErrOrder == "ValueError: start must be less than or equal to stop"
ErrIndex == "IndexError"
ErrGap == "ValueError: gap cannot be negative"
ErrHstack == "ValueError: array dimensions must match"
ErrDirection == "ValueError: direction must be 'both', 'start', or 'stop'"
ErrShrink == "ValueError: shrink amount too large"
ErrIter == "TypeError: object is not iterable"
ErrNoneMul == "TypeError: unsupported operand type(s) for *"
ErrStack == "ValueError: need at least one array to concatenate"

(***************************************************************************)
(* numpy arrays, as far as the constructor tells them apart: a 1-D vector, *)
(* an (n,2) matrix, and the (1,n,2) array that slicing builds.             *)
(***************************************************************************)
Vec(v) == [nd |-> 1, v |-> v, rows |-> <<>>]
Mat(rows) == [nd |-> 2, v |-> <<>>, rows |-> rows]
Cube(rows) == [nd |-> 3, v |-> <<>>, rows |-> rows]

ArrLen(a) == IF a.nd = 1 THEN Len(a.v) ELSE IF a.nd = 2 THEN Len(a.rows) ELSE 1

\* np.squeeze drops every axis of length 1; a 0-d result is made 1-D again.
Squeeze(a) ==
    IF a.nd = 1 THEN a
    ELSE IF Len(a.rows) = 1 THEN Vec(<<a.rows[1][1], a.rows[1][2]>>)
    ELSE Mat(a.rows)

NoDuration == <<>>

\* cols is the second axis of the samples array: 2, or 0 for np.array([]).
EmptyEpochArray == [samples |-> <<>>, time |-> <<>>, fs |-> NoFs, cols |-> 0]

Ok(v) == [err |-> NoErr, val |-> v, alias |-> "new"]
Raise(e) == [err |-> e, val |-> EmptyEpochArray, alias |-> "new"]

\* The comparison fs <= 0 and the raise inside the try block.
RateTry(fs) ==
    IF fs.kind # "scalar" THEN ErrCompare
    ELSE IF fs.val <= 0 THEN ErrPositive
    ELSE NoErr

\* The bare except around it turns whatever was raised into the TypeError.
CtorRateError(fs) ==
    IF fs.kind = "none" THEN NoErr
    ELSE IF RateTry(fs) # NoErr THEN ErrScalar
    ELSE NoErr

\* The duration branch: stop = start + duration.
WithDuration(sq, duration) ==
    IF duration = NoDuration THEN [err |-> NoErr, arr |-> sq]
    ELSE IF sq.nd = 2 THEN [err |-> ErrDurationPairs, arr |-> sq]
    ELSE IF Len(duration) > 1 /\ Len(sq.v) # Len(duration)
         THEN [err |-> ErrDurationLen, arr |-> sq]
    ELSE [err |-> NoErr,
          arr |-> Mat([i \in 1..Len(sq.v) |->
                        <<sq.v[i],
                          sq.v[i] + (IF Len(duration) = 1 THEN duration[1]
                                     ELSE duration[i])>>])]

\* A 1-D vector without duration becomes an (n,1) column, and a column is
\* rebuilt from its rows 0 and 1 as the single pair (samples[0], samples[1]).
AsPairs(a) ==
    IF a.nd = 2 THEN [err |-> NoErr, rows |-> a.rows]
    ELSE IF Len(a.v) < 2 THEN [err |-> ErrIndex, rows |-> <<>>]
    ELSE [err |-> NoErr, rows |-> << <<a.v[1], a.v[2]>> >>]

\* samples[np.argsort(samples[:, 0])]: for arrays this short numpy's sort is
\* an insertion sort, which keeps the order of equal starts.
InsertRow(row, s) ==
    LET k == Cardinality({i \in 1..Len(s) : s[i][1] <= row[1]})
    IN  SubSeq(s, 1, k) \o <<row>> \o SubSeq(s, k + 1, Len(s))

\* SortRows without the sort.
SortRowsSkipped(rows) == rows

RECURSIVE InsertionSort(_)
InsertionSort(rows) ==
    IF rows = <<>> THEN <<>>
    ELSE InsertRow(rows[Len(rows)], InsertionSort(SubSeq(rows, 1, Len(rows) - 1)))

SortRows(rows) == InsertionSort(rows)

\* samples / fs
TimeOf(rows, fs) ==
    IF fs.kind = "none" THEN rows
    ELSE [i \in 1..Len(rows) |-> <<rows[i][1] \div fs.val, rows[i][2] \div fs.val>>]

\* Whether samples / val falls on a tick.
Exact(rows, val) ==
    \A i \in 1..Len(rows) : rows[i][1] % val = 0 /\ rows[i][2] % val = 0

\* The last lines of the constructor: the sorted samples, their time, the rate.
Sorted(sorted, fs) ==
    Ok([samples |-> sorted, time |-> TimeOf(sorted, fs), fs |-> fs, cols |-> 2])

\* The check that no epoch stops before it starts, and the sort.
FromPairs(two, fs) ==
    IF two.err # NoErr THEN Raise(two.err)
    ELSE IF \E i \in 1..Len(two.rows) : two.rows[i][2] - two.rows[i][1] < 0
         THEN Raise(ErrOrder)
    ELSE Sorted(SortRows(two.rows), fs)

FromDuration(dur, fs) ==
    IF dur.err # NoErr THEN Raise(dur.err)
    ELSE FromPairs(AsPairs(dur.arr), fs)

EpochArrayInit(samples, fs, duration) ==
    IF ArrLen(samples) = 0 THEN Ok(EmptyEpochArray)
    ELSE IF CtorRateError(fs) # NoErr THEN Raise(CtorRateError(fs))
    ELSE FromDuration(WithDuration(Squeeze(samples), duration), fs)

isempty(e) == Len(e.time) = 0
n_epochs(e) == IF isempty(e) THEN 0 ELSE Len(e.time)

Starts(rows) == [i \in 1..Len(rows) |-> rows[i][1]]
Stops(rows) == [i \in 1..Len(rows) |-> rows[i][2]]
Diff(a, b) == [i \in 1..Len(a) |-> a[i] - b[i]]

copy(e) ==
    EpochArrayInit(Vec(Starts(e.samples)), e.fs,
                   Diff(Stops(e.samples), Starts(e.samples)))

\* The loop of merge over i = 0 .. n-2, and the append that follows it.
RECURSIVE MergeLoop(_, _, _, _, _, _)
MergeLoop(S, g, i, next_stop, new_starts, new_stops) ==
    IF i > Len(S) - 1
    THEN [starts |-> new_starts, stops |-> Append(new_stops, S[Len(S)][2])]
    ELSE LET this_stop == S[i][2]
             nxt == Max(next_stop, this_stop)
             to_merge == ((S[i][2] + g) - S[i + 1][1]) >= 0
         IN  IF ~to_merge
             THEN MergeLoop(S, g, i + 1, nxt,
                            Append(new_starts, S[i + 1][1]), Append(new_stops, nxt))
             ELSE MergeLoop(S, g, i + 1, nxt, new_starts, new_stops)

\* EpochArray(new_starts, duration=new_stops - new_starts, fs=self.fs)
MergeBuild(m, fs) == EpochArrayInit(Vec(m.starts), fs, Diff(m.stops, m.starts))

\* epoch is the copy of self, g the gap in samples.
MergeCopy(epoch, g, fs) ==
    MergeBuild(MergeLoop(epoch.samples, g, 1, epoch.samples[1][2],
                         <<epoch.samples[1][1]>>, <<>>), fs)

\* gap is in time; with a rate it is converted to samples (gap * fs).
merge(e, gap) ==
    IF isempty(e) THEN [err |-> NoErr, val |-> e, alias |-> "self"]
    ELSE IF gap < 0 THEN Raise(ErrGap)
    ELSE MergeCopy(copy(e).val, IF e.fs.kind # "none" THEN gap * e.fs.val ELSE gap, e.fs)

\* Overlap with the first test strict in the start (aa[0] < bb[0]).
OverlapStrictStart(aa, bb, boundaries) ==
    IF (aa[1] < bb[1] /\ bb[1] < aa[2]) /\ (aa[1] < bb[2] /\ bb[2] <= aa[2])
    THEN << <<bb[1], bb[2]>> >>
    ELSE IF (aa[1] < bb[1] /\ bb[1] < aa[2]) /\ (aa[1] < bb[2] /\ bb[2] > aa[2])
    THEN << <<bb[1], IF boundaries THEN aa[2] ELSE bb[2]>> >>
    ELSE IF (aa[1] > bb[1] /\ bb[1] < aa[2]) /\ (aa[1] < bb[2] /\ bb[2] < aa[2])
    THEN << <<IF boundaries THEN aa[1] ELSE bb[1], bb[2]>> >>
    ELSE IF (aa[1] >= bb[1] /\ bb[1] < aa[2]) /\ (aa[1] < bb[2] /\ bb[2] >= aa[2])
    THEN << <<IF boundaries THEN aa[1] ELSE bb[1],
              IF boundaries THEN aa[2] ELSE bb[2]>> >>
    ELSE <<>>

\* One pass of the inner loop of intersect: the epoch that the pair (aa, bb)
\* of merged epochs adds to new_starts / new_stops, if any.
Overlap(aa, bb, boundaries) ==
    IF (aa[1] <= bb[1] /\ bb[1] < aa[2]) /\ (aa[1] < bb[2] /\ bb[2] <= aa[2])
    THEN << <<bb[1], bb[2]>> >>
    ELSE IF (aa[1] < bb[1] /\ bb[1] < aa[2]) /\ (aa[1] < bb[2] /\ bb[2] > aa[2])
    THEN << <<bb[1], IF boundaries THEN aa[2] ELSE bb[2]>> >>
    ELSE IF (aa[1] > bb[1] /\ bb[1] < aa[2]) /\ (aa[1] < bb[2] /\ bb[2] < aa[2])
    THEN << <<IF boundaries THEN aa[1] ELSE bb[1], bb[2]>> >>
    ELSE IF (aa[1] >= bb[1] /\ bb[1] < aa[2]) /\ (aa[1] < bb[2] /\ bb[2] >= aa[2])
    THEN << <<IF boundaries THEN aa[1] ELSE bb[1],
              IF boundaries THEN aa[2] ELSE bb[2]>> >>
    ELSE <<>>

\* for aa in epoch_a.time: for bb in epoch_b.time: ...   (k counts the passes)
RECURSIVE IntersectLoop(_, _, _, _)
IntersectLoop(A, B, boundaries, k) ==
    IF k > Len(A) * Len(B) THEN <<>>
    ELSE Overlap(A[((k - 1) \div Len(B)) + 1], B[((k - 1) % Len(B)) + 1], boundaries)
         \o IntersectLoop(A, B, boundaries, k + 1)

\* np.unique: the sorted distinct values.
RECURSIVE SortedSeq(_)
SortedSeq(S) ==
    IF S = {} THEN <<>>
    ELSE LET m == CHOOSE v \in S : \A w \in S : v <= w
         IN  <<m>> \o SortedSeq(S \ {m})

unique(seq) == SortedSeq({seq[i] : i \in 1..Len(seq)})

Scale(rows, k) == [i \in 1..Len(rows) |-> <<rows[i][1] * k, rows[i][2] * k>>]

\* The three returns of intersect, by the rates of the operands.
IntersectResult(fs_a, fs_b, rows) ==
    IF fs_a # fs_b THEN EpochArrayInit(Mat(rows), NoFs, NoDuration)
    ELSE IF fs_a.kind = "none" THEN EpochArrayInit(Mat(rows), NoFs, NoDuration)
    ELSE EpochArrayInit(Mat(Scale(rows, fs_a.val)), fs_a, NoDuration)

\* np.hstack of the two columns, which must be equally long.
IntersectBuild(fs_a, fs_b, new_starts, new_stops) ==
    IF Len(new_starts) # Len(new_stops) THEN Raise(ErrHstack)
    ELSE IntersectResult(fs_a, fs_b,
            [i \in 1..Len(new_starts) |-> <<new_starts[i], new_stops[i]>>])

\* Without boundaries the starts and the stops are made unique, each apart.
IntersectFound(fs_a, fs_b, boundaries, found) ==
    IntersectBuild(fs_a, fs_b,
                   IF boundaries THEN Starts(found) ELSE unique(Starts(found)),
                   IF boundaries THEN Stops(found) ELSE unique(Stops(found)))

intersect(e, epoch, boundaries) ==
    IF isempty(e) \/ isempty(epoch) THEN Ok(EmptyEpochArray)
    ELSE IntersectFound(e.fs, epoch.fs, boundaries,
            IntersectLoop(merge(copy(e).val, 0).val.time,
                          merge(copy(epoch).val, 0).val.time, boundaries, 1))

join(e, epoch) ==
    IF isempty(e) THEN [err |-> NoErr, val |-> epoch, alias |-> "other"]
    ELSE IF isempty(epoch) THEN [err |-> NoErr, val |-> e, alias |-> "self"]
    ELSE IF e.fs # epoch.fs
    THEN LET join_starts == Starts(e.time) \o Starts(epoch.time)
             join_stops == Stops(e.time) \o Stops(epoch.time)
         IN  EpochArrayInit(Vec(join_starts), NoFs, Diff(join_stops, join_starts))
    ELSE LET join_starts == Starts(e.samples) \o Starts(epoch.samples)
             join_stops == Stops(e.samples) \o Stops(epoch.samples)
         IN  EpochArrayInit(Vec(join_starts), e.fs, Diff(join_stops, join_starts))

Directions == {"both", "start", "stop", "left"}

\* self.time[:, 0] needs a 2-D array: the time of EpochArray([]) is 1-D.
expand(e, amount, direction) ==
    IF e.cols # 2 THEN Raise(ErrIndex)
    ELSE IF direction \notin {"both", "start", "stop"} THEN Raise(ErrDirection)
    ELSE EpochArrayInit(
            Mat([i \in 1..Len(e.time) |->
                  <<e.time[i][1] - (IF direction \in {"both", "start"} THEN amount ELSE 0),
                    e.time[i][2] + (IF direction \in {"both", "stop"} THEN amount ELSE 0)>>]),
            NoFs, NoDuration)

durations(e) == [i \in 1..Len(e.time) |-> e.time[i][2] - e.time[i][1]]
SeqMin(s) == CHOOSE v \in {s[i] : i \in 1..Len(s)} : \A i \in 1..Len(s) : v <= s[i]

\* shrink without its two limits.
shrinkUnchecked(e, amount, direction) == expand(e, 0 - amount, direction)

\* amount > min(durations / 2) is compared as 2 * amount > min(durations).
shrink(e, amount, direction) ==
    IF isempty(e) THEN Raise(ErrIter)
    ELSE IF 2 * amount > SeqMin(durations(e)) /\ direction = "both" THEN Raise(ErrShrink)
    ELSE IF amount > SeqMin(durations(e)) /\ direction # "both" THEN Raise(ErrShrink)
    ELSE expand(e, 0 - amount, direction)

\* A slice bound: None, or a number.
NoBound == <<>>
Bound(v) == <<v>>

\* PyIndex with an index past the end clamped to the last position.
PyIndexClamped(n, idx) == IF idx < 0 THEN n + idx + 1 ELSE Min(idx + 1, n)

\* Python's index: a negative idx counts from the end (1-based here).
PyIndex(n, idx) == IF idx < 0 THEN n + idx + 1 ELSE idx + 1

\* try / except around the constructor: any exception gives EpochArray([]).
Caught(made) == IF made.err # NoErr THEN Ok(EmptyEpochArray) ELSE made

\* self[idx] for an int.
getitem_int(e, idx) ==
    IF PyIndex(Len(e.samples), idx) < 1 \/ PyIndex(Len(e.samples), idx) > Len(e.samples)
    THEN Ok(EmptyEpochArray)
    ELSE Caught(EpochArrayInit(Mat(<<e.samples[PyIndex(Len(e.samples), idx)]>>),
                               e.fs, NoDuration))

\* stop of self[a:b]: -1 for None, else min(stop - 1, n_epochs - 1).
SliceStop(e, b) == IF b = NoBound THEN 0 - 1 ELSE Min(b[1] - 1, n_epochs(e) - 1)
SliceStart(a) == IF a = NoBound THEN 0 ELSE a[1]

\* self[a:b], for bounds that are None or not negative.
getitem_slice(e, a, b) ==
    IF SliceStart(a) >= n_epochs(e) THEN Ok(EmptyEpochArray)
    ELSE EpochArrayInit(
            Cube(SubSeq(e.samples, SliceStart(a) + 1,
                        Min(SliceStop(e, b) + 1, Len(e.samples)))),
            e.fs, NoDuration)

\* An empty intersection is returned as EpochArray([]).
EmptyChecked(epoch) ==
    IF epoch.err # NoErr THEN epoch
    ELSE IF isempty(epoch.val) THEN Ok(EmptyEpochArray)
    ELSE epoch

\* self[idx] for an EpochArray.
getitem_epoch(e, idx) ==
    IF isempty(idx) THEN Ok(EmptyEpochArray)
    ELSE IF idx.fs # e.fs /\ e.fs.kind = "none" THEN Raise(ErrNoneMul)
    ELSE IF idx.fs # e.fs
    THEN EmptyChecked(intersect(e,
            EpochArrayInit(Mat(Scale(idx.time, e.fs.val)), e.fs, NoDuration).val, TRUE))
    ELSE EmptyChecked(intersect(e, idx, TRUE))

\* The comparison val <= 0 inside the try block of the fs setter.
SetterTry(val) == IF val.kind # "scalar" THEN ErrCompare ELSE NoErr

\* EpochArray.fs = val
SetterError(val) ==
    IF SetterTry(val) # NoErr THEN ErrScalar
    ELSE IF val.val <= 0 THEN ErrPositive
    ELSE NoErr

set_fs(e, val) == [e EXCEPT !.fs = val, !.time = TimeOf(e.samples, val)]

\* contains(value): value lies in the closed bounds of some epoch (in time).
contains(e, value) ==
    \E i \in 1..Len(e.time) : e.time[i][1] <= value /\ value <= e.time[i][2]

(***************************************************************************)
(* Inputs.                                                                 *)
(***************************************************************************)
SeqsUpTo(S, n) == UNION {[1..k -> S] : k \in 0..n}

Durs == (0 - 1)..1
CtorRates == {NoFs, Scalar(1), Scalar(2), Scalar(0), NonScalar}
SetterRates == {NoFs, Scalar(1), Scalar(2), Scalar(0), Scalar(0 - 1), NonScalar}

\* The four shapes of constructor input: starts alone, start/stop pairs,
\* starts with a duration, pairs with a duration.
StartsInputs ==
    {[samples |-> Vec(v), duration |-> NoDuration] : v \in SeqsUpTo(Times, MaxLen)}
PairsInputs ==
    {[samples |-> Mat(m), duration |-> NoDuration] :
        m \in SeqsUpTo(Times \X Times, MaxLen)}
DurationInputs ==
    {[samples |-> Vec(v), duration |-> d] :
        v \in SeqsUpTo(Times, MaxLen), d \in SeqsUpTo(Durs, MaxLen) \ {<<>>}}
BothInputs ==
    {[samples |-> Mat(m), duration |-> <<1>>] :
        m \in SeqsUpTo(Times \X Times, Min(MaxLen, 2))}

\* The inputs whose time coordinates are integers.
ExactInput(in, fs) ==
    (fs.kind = "scalar" /\ fs.val > 0) =>
        /\ \A i \in 1..Len(in.samples.v) : in.samples.v[i] % fs.val = 0
        /\ Exact(in.samples.rows, fs.val)
        /\ \A i \in 1..Len(in.duration) : in.duration[i] % fs.val = 0

\* The sets another operand is drawn from: single epochs, and the empty set.
Operands ==
    {EmptyEpochArray}
    \cup {EpochArrayInit(Mat(<<p>>), NoFs, NoDuration).val :
            p \in {q \in Times \X Times : q[1] <= q[2]}}
    \cup {EpochArrayInit(Mat(<<p>>), Scalar(2), NoDuration).val :
            p \in {q \in Times \X Times : q[1] <= q[2] /\ Exact(<<q>>, 2)}}

Gaps == (0 - 1)..1
Amounts == (0 - 1)..1
Indices == (0 - MaxLen - 1)..MaxLen
Bounds == {NoBound} \cup {Bound(k) : k \in 0..(MaxLen + 1)}

\* The coordinates the model keeps: results outside are not explored.
InRange(e) ==
    /\ Len(e.samples) <= MaxLen
    /\ \A i \in 1..Len(e.samples) :
          /\ e.samples[i][1] \in Times /\ e.samples[i][2] \in Times
          /\ e.time[i][1] \in Times /\ e.time[i][2] \in Times

NoSpikeTrain == [samples |-> <<>>, time |-> <<>>, fs |-> NoFs, support |-> EmptyEpochArray]

(***************************************************************************)
(* Spec: one EpochArray is constructed, and operations are applied to it;  *)
(* each result replaces it.                                                *)
(***************************************************************************)
Idle == /\ y = EmptyEpochArray /\ z = EmptyEpochArray /\ r = EmptyEpochArray
        /\ st = NoSpikeTrain

Init == /\ x = EmptyEpochArray /\ op = "new" /\ err = NoErr /\ arg = 0
        /\ Idle

\* What an operation leaves: the result in x, or x as it was and the error.
Step(returned, name, a) == \E res \in {returned} :
    /\ res.err = NoErr => InRange(res.val)
    /\ x' = IF res.err = NoErr THEN res.val ELSE x
    /\ op' = name
    /\ err' = res.err
    /\ arg' = a
    /\ UNCHANGED <<y, z, r, st>>

\* x = EpochArray(samples, fs, duration): nothing is held if it raises.
Constructed(returned) == \E res \in {returned} :
    /\ res.err = NoErr => InRange(res.val)
    /\ x' = IF res.err = NoErr THEN res.val ELSE x
    /\ op' = IF res.err = NoErr THEN "init" ELSE "new"
    /\ err' = res.err
    /\ arg' = 0
    /\ UNCHANGED <<y, z, r, st>>

ConstructFrom(inputs) ==
    /\ op = "new"
    /\ \E in \in inputs, fs \in CtorRates :
         /\ ExactInput(in, fs)
         /\ Constructed(EpochArrayInit(in.samples, fs, in.duration))

ConstructStarts == ConstructFrom(StartsInputs)
ConstructPairs == ConstructFrom(PairsInputs)
ConstructDuration == ConstructFrom(DurationInputs)
ConstructBoth == ConstructFrom(BothInputs)

Merge == op # "new" /\ \E gap \in Gaps : Step(merge(x, gap), "merge", gap)

Intersect ==
    op # "new" /\ \E other \in Operands, b \in BOOLEAN :
        Step(intersect(x, other, b), "intersect", 0)

Join == op # "new" /\ \E other \in Operands : Step(join(x, other), "join", 0)

Expand ==
    op # "new" /\ \E amount \in Amounts, d \in Directions :
        Step(expand(x, amount, d), "expand", 0)

Shrink ==
    op # "new" /\ \E amount \in Amounts, d \in Directions :
        Step(shrink(x, amount, d), "shrink", 0)

GetInt == op # "new" /\ \E i \in Indices : Step(getitem_int(x, i), "getitem_int", 0)

GetSlice ==
    op # "new" /\ \E a \in Bounds, b \in Bounds :
        Step(getitem_slice(x, a, b), "getitem_slice", 0)

GetEpoch ==
    op # "new" /\ \E idx \in Operands : Step(getitem_epoch(x, idx), "getitem_epoch", 0)

\* x.fs = val
SetFs ==
    /\ op # "new"
    /\ \E val \in SetterRates :
         /\ SetterError(val) = NoErr => Exact(x.samples, val.val)
         /\ Step([err |-> SetterError(val),
                  val |-> IF SetterError(val) = NoErr THEN set_fs(x, val) ELSE x],
                 "set_fs", 0)

Next ==
    \/ ConstructStarts
    \/ ConstructPairs
    \/ ConstructDuration
    \/ ConstructBoth
    \/ Merge
    \/ Intersect
    \/ Join
    \/ Expand
    \/ Shrink
    \/ GetInt
    \/ GetSlice
    \/ GetEpoch
    \/ SetFs

Spec == Init /\ [][Next]_vars

(***************************************************************************)
(* Properties of Spec.                                                     *)
(***************************************************************************)
SortedByStart(rows) == \A i \in 1..(Len(rows) - 1) : rows[i][1] <= rows[i + 1][1]
StartBeforeStop(rows) == \A i \in 1..Len(rows) : rows[i][1] <= rows[i][2]

\* C1: every non-empty EpochArray that construction and the operations
\* reach has its epochs sorted by start, each with start <= stop, in samples
\* and in time.
C1_SortedEpochs ==
    ~isempty(x) =>
        /\ SortedByStart(x.samples) /\ StartBeforeStop(x.samples)
        /\ SortedByStart(x.time) /\ StartBeforeStop(x.time)

\* Two epochs with different starts, left by a join.
C1_Witness ==
    /\ op = "join" /\ err = NoErr
    /\ Len(x.samples) = 2
    /\ x.samples[1][1] < x.samples[2][1]
    /\ x.samples[1][2] > x.samples[2][2]

(***************************************************************************)
(* SpecMerge: a constructed EpochArray x is merged (y = x.merge(gap)), and *)
(* the result is merged again with the same gap (r = y.merge(gap)).        *)
(***************************************************************************)
ValidPairs == {q \in Times \X Times : q[1] <= q[2]}

\* The EpochArrays built from up to n start/stop pairs given in any order,
\* without a rate and with the rate 2.
Built(n) ==
    {EpochArrayInit(Mat(m), NoFs, NoDuration).val : m \in SeqsUpTo(ValidPairs, n)}
    \cup {EpochArrayInit(Mat(m), Scalar(2), NoDuration).val :
            m \in {k \in SeqsUpTo(ValidPairs, n) : Exact(k, 2)}}

InitMerge ==
    /\ x \in Built(MaxMerge)
    /\ y = EmptyEpochArray /\ z = EmptyEpochArray /\ r = EmptyEpochArray
    /\ st = NoSpikeTrain
    /\ op = "init" /\ err = NoErr /\ arg = 0

MergeFirst ==
    /\ op = "init"
    /\ \E gap \in Gaps : \E res \in {merge(x, gap)} :
         /\ y' = res.val
         /\ op' = "merge"
         /\ err' = res.err
         /\ arg' = gap
         /\ UNCHANGED <<x, z, r, st>>

MergeSecond ==
    /\ op = "merge" /\ err = NoErr
    /\ \E res \in {merge(y, arg)} :
         /\ r' = res.val
         /\ op' = "merge2"
         /\ err' = res.err
         /\ UNCHANGED <<x, y, z, st, arg>>

NextMerge ==
    \/ MergeFirst
    \/ MergeSecond

SpecMerge == InitMerge /\ [][NextMerge]_vars

\* Time points are compared at the coordinates and half way between them:
\* p2 is twice the point.
HalfPoints == 0..(2 * MaxT)
Covered(e, p2) ==
    \E i \in 1..Len(e.time) : 2 * e.time[i][1] <= p2 /\ p2 <= 2 * e.time[i][2]
SameCoverage(e, f) == \A p2 \in HalfPoints : Covered(e, p2) <=> Covered(f, p2)

\* C2: the result of merge(gap) on a non-empty set is disjoint subject to
\* the gap: stop[k] + gap < start[k+1] for consecutive epochs.
C2_MergeDisjoint ==
    (op = "merge" /\ err = NoErr /\ ~isempty(x)) =>
        \A k \in 1..(Len(y.time) - 1) : y.time[k][2] + arg < y.time[k + 1][1]

\* C3: merge(0) keeps the coverage: a point is covered by x.merge(0) iff it
\* is covered by x, contains answers alike on both, and [[0,5],[3,8],[20,25]]
\* merges to [[0,8],[20,25]].
C3_MergeCoverage ==
    /\ (op = "merge" /\ err = NoErr /\ arg = 0 /\ ~isempty(x)) =>
          /\ SameCoverage(x, y)
          /\ \A v \in Times : contains(x, v) <=> contains(y, v)
    /\ merge(EpochArrayInit(Mat(<< <<0, 5>>, <<3, 8>>, <<20, 25>> >>),
                            NoFs, NoDuration).val, 0).val.samples
          = << <<0, 8>>, <<20, 25>> >>

\* C4: merge(0) is idempotent: x.merge(0).merge(0) has the epochs of
\* x.merge(0), one for one.
C4_MergeIdempotent ==
    (op = "merge2" /\ err = NoErr /\ arg = 0 /\ ~isempty(x)) =>
        /\ r.samples = y.samples
        /\ r.time = y.time

(***************************************************************************)
(* SpecPair: two constructed EpochArrays x and y, and r = x.intersect(y).  *)
(***************************************************************************)
InitPair ==
    /\ x \in Built(MaxLen)
    /\ y \in Built(MaxOther)
    /\ z = EmptyEpochArray /\ r = EmptyEpochArray /\ st = NoSpikeTrain
    /\ op = "init" /\ err = NoErr /\ arg = 0

\* arg is 1 for boundaries=True and 0 for boundaries=False.
IntersectPair ==
    /\ op = "init"
    /\ \E b \in BOOLEAN : \E res \in {intersect(x, y, b)} :
         /\ r' = res.val
         /\ op' = "intersect"
         /\ err' = res.err
         /\ arg' = IF b THEN 1 ELSE 0
         /\ UNCHANGED <<x, y, z, st>>

\* The same call with the operands exchanged.
IntersectSwapped ==
    /\ op = "init"
    /\ \E b \in BOOLEAN : \E res \in {intersect(y, x, b)} :
         /\ r' = res.val
         /\ op' = "intersect_swapped"
         /\ err' = res.err
         /\ arg' = IF b THEN 1 ELSE 0
         /\ UNCHANGED <<x, y, z, st>>

NextPair ==
    \/ IntersectPair
    \/ IntersectSwapped

SpecPair == InitPair /\ [][NextPair]_vars

\* p2 lies strictly inside an epoch of e.
Inside(e, p2) ==
    \E i \in 1..Len(e.time) : 2 * e.time[i][1] < p2 /\ p2 < 2 * e.time[i][2]

\* C5: A.intersect(B, boundaries=true) is the overlap of A and B: what it
\* covers is covered by A and by B, what lies strictly inside an epoch of A
\* and of B is covered by it, [[0,10]] and [[5,15]] give [[5,10]], and with an
\* empty operand it is empty.
C5_IntersectIsOverlap ==
    /\ (op = "intersect" /\ arg = 1) =>
          /\ err = NoErr
          /\ \A p2 \in HalfPoints : Covered(r, p2) => Covered(x, p2) /\ Covered(y, p2)
          /\ \A p2 \in HalfPoints : Inside(x, p2) /\ Inside(y, p2) => Covered(r, p2)
          /\ (isempty(x) \/ isempty(y)) => isempty(r)
    /\ intersect(EpochArrayInit(Mat(<< <<0, 10>> >>), NoFs, NoDuration).val,
                 EpochArrayInit(Mat(<< <<5, 15>> >>), NoFs, NoDuration).val,
                 TRUE).val.samples = << <<5, 10>> >>

JoinMerged(a, b) == merge(join(a, b).val, 0)

InitJoin ==
    /\ x \in Built(MaxOther) /\ y \in Built(MaxOther) /\ z \in Built(MaxOther)
    /\ ~isempty(x) /\ ~isempty(y) /\ ~isempty(z)
    /\ x.fs = y.fs /\ y.fs = z.fs
    /\ r = EmptyEpochArray /\ st = NoSpikeTrain
    /\ op = "init" /\ err = NoErr /\ arg = 0

\* r = x.join(y).merge()
JoinTwo ==
    /\ op = "init"
    /\ \E res \in {JoinMerged(x, y)} :
         /\ r' = res.val
         /\ op' = "join2"
         /\ err' = res.err
         /\ UNCHANGED <<x, y, z, st, arg>>

\* r = x.join(y).join(z).merge()
JoinAll ==
    /\ op = "init"
    /\ \E res \in {JoinMerged(join(x, y).val, z)} :
         /\ r' = res.val
         /\ op' = "join3"
         /\ err' = res.err
         /\ UNCHANGED <<x, y, z, st, arg>>

NextJoin ==
    \/ JoinTwo
    \/ JoinAll

SpecJoin == InitJoin /\ [][NextJoin]_vars

\* C7: for non-empty EpochArrays of one rate, merging (A join B) join C gives
\* the same EpochArray as merging A join (B join C), and merging A join B covers
\* the same time points as merging B join A.
C7_JoinAssocCommut ==
    /\ op = "join3" => r = JoinMerged(x, join(y, z).val).val
    /\ op = "join2" => SameCoverage(r, JoinMerged(y, x).val)

(***************************************************************************)
(* SpikeTrain.                                                             *)
(***************************************************************************)
\* support=None
NoSupport == [samples |-> <<>>, time |-> <<>>, fs |-> NoFs, cols |-> 0 - 1]

StOk(v) == [err |-> NoErr, val |-> v]
StRaise(e) == [err |-> e, val |-> NoSpikeTrain]

\* time = samples / fs
SpikeTime(samples, fs) ==
    IF fs.kind = "none" THEN samples
    ELSE [i \in 1..Len(samples) |-> samples[i] \div fs.val]

ExactSpikes(samples, val) == \A i \in 1..Len(samples) : samples[i] % val = 0

\* np.any(np.column_stack(indices), axis=1): the positions whose time lies in
\* the closed bounds of some epoch.
indices(time, bounds) ==
    SelectSeq([i \in 1..Len(time) |-> i],
              LAMBDA i : \E k \in 1..Len(bounds) :
                            time[i] >= bounds[k][1] /\ time[i] <= bounds[k][2])

\* samples[indices]
Take(samples, keep) == [k \in 1..Len(keep) |-> samples[keep[k]]]

Restricted(samples, fs, support) ==
    Take(samples, indices(SpikeTime(samples, fs), support.time))

\* The default support [0, last spike].
DefaultSupport(samples, fs, made) ==
    IF made.err # NoErr THEN StRaise(made.err)
    ELSE StOk([samples |-> samples, time |-> SpikeTime(samples, fs), fs |-> fs,
               support |-> made.val])

\* The given support is kept, and the spikes outside it are dropped.
GivenSupport(kept, fs, support) ==
    StOk([samples |-> kept, time |-> SpikeTime(kept, fs), fs |-> fs,
          support |-> support])

\* SpikeTrain(samples, fs, support)
SpikeTrainInit(samples, fs, support) ==
    IF CtorRateError(fs) # NoErr THEN StRaise(CtorRateError(fs))
    ELSE IF Len(samples) = 0
    THEN StOk([samples |-> <<>>, time |-> <<>>, fs |-> fs, support |-> EmptyEpochArray])
    ELSE IF support = NoSupport
    THEN DefaultSupport(samples, fs,
            EpochArrayInit(Vec(<<0, samples[Len(samples)]>>), fs, NoDuration))
    ELSE IF isempty(support) THEN StRaise(ErrStack)
    ELSE GivenSupport(Restricted(samples, fs, support), fs, support)

n_spikes(s) == Len(s.time)

\* The support of self[idx]: any exception gives SpikeTrain([], support=EpochArray([])).
SpikeAt(s, i, epoch) ==
    IF epoch.err # NoErr THEN SpikeTrainInit(<<>>, NoFs, EmptyEpochArray)
    ELSE SpikeTrainInit(<<s.samples[i]>>, s.fs, epoch.val)

\* self[idx] for an int.
spike_getitem_int(s, idx) ==
    IF PyIndex(Len(s.samples), idx) < 1 \/ PyIndex(Len(s.samples), idx) > Len(s.samples)
    THEN SpikeTrainInit(<<>>, NoFs, EmptyEpochArray)
    ELSE SpikeAt(s, PyIndex(Len(s.samples), idx),
                 EpochArrayInit(Vec(<<s.samples[PyIndex(Len(s.samples), idx)],
                                      s.samples[PyIndex(Len(s.samples), idx)]>>),
                                s.fs, NoDuration))

SpikeSliceStop(s, b) == IF b = NoBound THEN 0 - 1 ELSE Min(b[1] - 1, n_spikes(s) - 1)

\* self.samples[a:b] for bounds that are None or not negative.
SpikeSlice(s, a, b) ==
    SubSeq(s.samples, SliceStart(a) + 1,
           IF b = NoBound THEN Len(s.samples) ELSE Min(b[1], Len(s.samples)))

SpikeSliced(s, a, b, epoch) ==
    IF epoch.err # NoErr THEN StRaise(epoch.err)
    ELSE SpikeTrainInit(SpikeSlice(s, a, b), s.fs, epoch.val)

\* self[a:b]
spike_getitem_slice(s, a, b) ==
    IF SliceStart(a) >= n_spikes(s) THEN SpikeTrainInit(<<>>, s.fs, NoSupport)
    ELSE SpikeSliced(s, a, b,
            EpochArrayInit(Vec(<<s.samples[SliceStart(a) + 1],
                                 s.samples[PyIndex(Len(s.samples), SpikeSliceStop(s, b))]>>),
                           s.fs, NoDuration))

SpikeWithin(s, epoch) ==
    IF epoch.err # NoErr THEN StRaise(epoch.err)
    ELSE IF isempty(epoch.val) THEN SpikeTrainInit(<<>>, NoFs, NoSupport)
    ELSE SpikeTrainInit(Take(s.samples, indices(s.time, epoch.val.time)),
                        s.fs, epoch.val)

\* self[idx] for an EpochArray.
spike_getitem_epoch(s, idx) ==
    IF isempty(idx) THEN SpikeTrainInit(<<>>, NoFs, NoSupport)
    ELSE SpikeWithin(s, intersect(s.support, idx, TRUE))

\* SpikeTrain.fs = val
spike_set_fs(s, val) == [s EXCEPT !.fs = val, !.time = SpikeTime(s.samples, val)]

SpikeInputs == SeqsUpTo(Times, MaxLen)

ExactSpikeInput(v, fs) == (fs.kind = "scalar" /\ fs.val > 0) => ExactSpikes(v, fs.val)

(***************************************************************************)
(* SpecSpike: a SpikeTrain st is constructed, with the default support or  *)
(* with the support x the caller holds, and is indexed and given new       *)
(* rates; each result replaces it.                                         *)
(***************************************************************************)
InitSpike ==
    /\ st = NoSpikeTrain
    /\ x = EmptyEpochArray /\ y = EmptyEpochArray /\ z = EmptyEpochArray
    /\ r = EmptyEpochArray
    /\ op = "new" /\ err = NoErr /\ arg = 0

SpikeStep(returned, name) == \E res \in {returned} :
    /\ st' = IF res.err = NoErr THEN res.val ELSE st
    /\ op' = IF res.err # NoErr /\ op = "new" THEN "new" ELSE name
    /\ err' = res.err
    /\ UNCHANGED <<y, z, r, arg>>

\* st = SpikeTrain(samples, fs)
SpikeNew ==
    /\ op = "new"
    /\ \E v \in SpikeInputs, fs \in CtorRates :
         /\ ExactSpikeInput(v, fs)
         /\ SpikeStep(SpikeTrainInit(v, fs, NoSupport), "init")
    /\ UNCHANGED x

\* st = SpikeTrain(samples, fs, support=x)
SpikeNewSupport ==
    /\ op = "new"
    /\ \E v \in SpikeInputs, fs \in CtorRates, support \in Operands :
         /\ ExactSpikeInput(v, fs)
         /\ x' = support
         /\ SpikeStep(SpikeTrainInit(v, fs, support), "init_support")

SpikeGetInt ==
    /\ op # "new"
    /\ \E i \in Indices : SpikeStep(spike_getitem_int(st, i), "getitem_int")
    /\ UNCHANGED x

SpikeGetSlice ==
    /\ op # "new"
    /\ \E a \in Bounds, b \in Bounds :
         SpikeStep(spike_getitem_slice(st, a, b), "getitem_slice")
    /\ UNCHANGED x

SpikeGetEpoch ==
    /\ op # "new"
    /\ \E idx \in Operands : SpikeStep(spike_getitem_epoch(st, idx), "getitem_epoch")
    /\ UNCHANGED x

\* st.fs = val
SpikeSetFs ==
    /\ op # "new"
    /\ \E val \in SetterRates :
         /\ SetterError(val) = NoErr => ExactSpikes(st.samples, val.val)
         /\ SpikeStep([err |-> SetterError(val),
                       val |-> IF SetterError(val) = NoErr THEN spike_set_fs(st, val)
                               ELSE st],
                      "set_fs")
    /\ UNCHANGED x

NextSpike ==
    \/ SpikeNew
    \/ SpikeNewSupport
    \/ SpikeGetInt
    \/ SpikeGetSlice
    \/ SpikeGetEpoch
    \/ SpikeSetFs

SpecSpike == InitSpike /\ [][NextSpike]_vars

\* Every spike time lies in the closed bounds of an epoch of the support.
InSupport(s) == \A i \in 1..Len(s.time) : contains(s.support, s.time[i])

\* C8: in every SpikeTrain reached by construction (with a given support or
\* the default one), by indexing and by rate updates, every spike time lies
\* within the closed bounds of an epoch of the support; samples [1,2,3,9]
\* with support [[0,5]] keep [1,2,3].
C8_SpikesInSupport ==
    /\ InSupport(st)
    /\ SpikeTrainInit(<<1, 2, 3, 9>>, NoFs,
                      EpochArrayInit(Mat(<< <<0, 5>> >>), NoFs, NoDuration).val
                     ).val.samples = <<1, 2, 3>>

(***************************************************************************)
(* SpecInit: one constructor call, of EpochArray or of SpikeTrain, and one *)
(* assignment to the rate of what it made.  arg is the call: the samples,  *)
(* the duration and the rate last passed; y is the EpochArray, and r the   *)
(* SpikeTrain, as it was before the assignment.                            *)
(***************************************************************************)
NoCall == [samples |-> Vec(<<>>), fs |-> NoFs, duration |-> NoDuration]

InitInit ==
    /\ x = EmptyEpochArray /\ y = EmptyEpochArray /\ z = EmptyEpochArray
    /\ r = NoSpikeTrain /\ st = NoSpikeTrain
    /\ op = "new" /\ err = NoErr /\ arg = NoCall

\* x = EpochArray(samples, fs, duration)
Called(in, fs, returned) == \E res \in {returned} :
    /\ x' = res.val
    /\ op' = IF res.err = NoErr THEN "init" ELSE "init_failed"
    /\ err' = res.err
    /\ arg' = [samples |-> in.samples, fs |-> fs, duration |-> in.duration]
    /\ UNCHANGED <<y, z, r, st>>

CallWith(inputs) ==
    /\ op = "new"
    /\ \E in \in inputs, fs \in CtorRates :
         /\ ExactInput(in, fs)
         /\ Called(in, fs, EpochArrayInit(in.samples, fs, in.duration))

CallStarts == CallWith(StartsInputs)
CallPairs == CallWith(PairsInputs)
CallDuration == CallWith(DurationInputs)

\* st = SpikeTrain(samples, fs)
CallSpike ==
    /\ op = "new"
    /\ \E v \in SpikeInputs, fs \in CtorRates : \E res \in {SpikeTrainInit(v, fs, NoSupport)} :
         /\ ExactSpikeInput(v, fs)
         /\ st' = res.val
         /\ op' = IF res.err = NoErr THEN "spike" ELSE "spike_failed"
         /\ err' = res.err
         /\ arg' = [samples |-> Vec(v), fs |-> fs, duration |-> NoDuration]
         /\ UNCHANGED <<x, y, z, r>>

\* x.fs = val
AssignFs ==
    /\ op = "init"
    /\ \E val \in SetterRates :
         /\ SetterError(val) = NoErr => Exact(x.samples, val.val)
         /\ x' = IF SetterError(val) = NoErr THEN set_fs(x, val) ELSE x
         /\ y' = x
         /\ op' = "set_fs"
         /\ err' = SetterError(val)
         /\ arg' = [arg EXCEPT !.fs = val]
         /\ UNCHANGED <<z, r, st>>

\* st.fs = val
AssignSpikeFs ==
    /\ op = "spike"
    /\ \E val \in SetterRates :
         /\ SetterError(val) = NoErr => ExactSpikes(st.samples, val.val)
         /\ st' = IF SetterError(val) = NoErr THEN spike_set_fs(st, val) ELSE st
         /\ r' = st
         /\ op' = "spike_set_fs"
         /\ err' = SetterError(val)
         /\ arg' = [arg EXCEPT !.fs = val]
         /\ UNCHANGED <<x, y, z>>

NextInit ==
    \/ CallStarts
    \/ CallPairs
    \/ CallDuration
    \/ CallSpike
    \/ AssignFs
    \/ AssignSpikeFs

SpecInit == InitInit /\ [][NextInit]_vars

\* The two sequences hold the same rows, each as many times.
SameRows(a, b) ==
    /\ Len(a) = Len(b)
    /\ \A i \in 1..Len(a) :
          Cardinality({k \in 1..Len(a) : a[k] = a[i]})
            = Cardinality({k \in 1..Len(b) : b[k] = a[i]})

\* The rate of the call is None or a positive number.
ValidRate(fs) == fs.kind = "none" \/ (fs.kind = "scalar" /\ fs.val > 0)

\* C9: each accepted form of input gives one epoch per entry: n starts give
\* the n epochs [s, s]; n start/stop pairs give the n pairs; n starts with a
\* duration (one, or n of them) give [s, s + d]; the result holds the same
\* epochs, sorted by start.
C9_OneEpochPerEntry ==
    (op \in {"init", "init_failed"} /\ ValidRate(arg.fs) /\ ArrLen(arg.samples) > 0) =>
        /\ (arg.samples.nd = 1 /\ arg.duration = NoDuration) =>
              /\ err = NoErr
              /\ SameRows(x.samples,
                          [i \in 1..Len(arg.samples.v) |->
                              <<arg.samples.v[i], arg.samples.v[i]>>])
              /\ SortedByStart(x.samples)
        /\ (arg.samples.nd = 2 /\ arg.duration = NoDuration
              /\ StartBeforeStop(arg.samples.rows)) =>
              /\ err = NoErr
              /\ SameRows(x.samples, arg.samples.rows)
              /\ SortedByStart(x.samples)
        /\ (arg.samples.nd = 1 /\ Len(arg.duration) \in {1, Len(arg.samples.v)}
              /\ \A i \in 1..Len(arg.duration) : arg.duration[i] >= 0) =>
              /\ err = NoErr
              /\ SameRows(x.samples,
                          [i \in 1..Len(arg.samples.v) |->
                              <<arg.samples.v[i],
                                arg.samples.v[i] + (IF Len(arg.duration) = 1
                                                    THEN arg.duration[1]
                                                    ELSE arg.duration[i])>>])
              /\ SortedByStart(x.samples)

\* C10: a rate that is not a number is refused as "must be a scalar" and a
\* number <= 0 as "must be positive", by the constructors of EpochArray and
\* SpikeTrain and by the rate setters; a refused assignment leaves the rate
\* and the time as they were.
C10_RateErrorKinds ==
    /\ (op \in {"init_failed", "spike_failed", "set_fs", "spike_set_fs"}
          /\ arg.fs = NonScalar) => err = ErrScalar
    /\ (op \in {"init", "init_failed"} /\ ArrLen(arg.samples) > 0
          /\ arg.fs.kind = "scalar" /\ arg.fs.val <= 0) => err = ErrPositive
    /\ (op \in {"spike", "spike_failed", "set_fs", "spike_set_fs"}
          /\ arg.fs.kind = "scalar" /\ arg.fs.val <= 0) => err = ErrPositive
    /\ (op = "set_fs" /\ err # NoErr) => (x.fs = y.fs /\ x.time = y.time)
    /\ (op = "spike_set_fs" /\ err # NoErr) => (st.fs = r.fs /\ st.time = r.time)

(***************************************************************************)
(* SpecIndex: a constructed EpochArray x, or a constructed SpikeTrain st,  *)
(* is indexed once; r is what the index returned and arg the index: <<i>>  *)
(* for an int, <<a, b>> for the slice a:b.                                 *)
(***************************************************************************)
\* The SpikeTrains built with the default support and with a given one.
BuiltSpikes ==
    {SpikeTrainInit(v, fs, NoSupport).val :
        v \in SpikeInputs, fs \in {NoFs}}
    \cup {SpikeTrainInit(v, Scalar(2), NoSupport).val :
            v \in {w \in SpikeInputs : ExactSpikes(w, 2)}}
    \cup {SpikeTrainInit(v, NoFs, s).val :
            v \in SpikeInputs, s \in Operands \ {EmptyEpochArray}}

InitIndex ==
    /\ \/ x \in Built(MaxLen) /\ st = NoSpikeTrain
       \/ x = EmptyEpochArray /\ st \in BuiltSpikes
    /\ y = EmptyEpochArray /\ z = EmptyEpochArray /\ r = EmptyEpochArray
    /\ op = "init" /\ err = NoErr /\ arg = <<>>

Indexed(returned, name, a) == \E res \in {returned} :
    /\ r' = res.val
    /\ op' = name
    /\ err' = res.err
    /\ arg' = a
    /\ UNCHANGED <<x, y, z, st>>

\* r = x[i]
IndexInt ==
    op = "init" /\ \E i \in Indices : Indexed(getitem_int(x, i), "getitem_int", <<i>>)

\* r = x[a:b]
IndexSlice ==
    op = "init" /\ \E a \in Bounds, b \in Bounds :
        Indexed(getitem_slice(x, a, b), "getitem_slice", <<a, b>>)

\* r = st[i]
SpikeIndexInt ==
    op = "init" /\ \E i \in Indices :
        Indexed(spike_getitem_int(st, i), "spike_getitem_int", <<i>>)

\* r = st[a:b]
SpikeIndexSlice ==
    op = "init" /\ \E a \in Bounds, b \in Bounds :
        Indexed(spike_getitem_slice(st, a, b), "spike_getitem_slice", <<a, b>>)

NextIndex ==
    \/ IndexInt
    \/ IndexSlice
    \/ SpikeIndexInt
    \/ SpikeIndexSlice

SpecIndex == InitIndex /\ [][NextIndex]_vars

\* i is an index Python accepts for a sequence of n entries.
InRangeIndex(n, i) == 0 - n <= i /\ i < n

\* C11: indexing out of range never raises and gives the empty value: x[i]
\* is the empty EpochArray for i out of range and the i-th epoch alone for i
\* in range; st[i] for i out of range, and st[a:b] for a >= n_spikes, is an
\* empty SpikeTrain with an empty support.
C11_OutOfRangeIsEmpty ==
    /\ (op = "getitem_int" /\ ~InRangeIndex(Len(x.samples), arg[1])) =>
          (err = NoErr /\ isempty(r) /\ r.samples = <<>>)
    /\ (op = "getitem_int" /\ InRangeIndex(Len(x.samples), arg[1])) =>
          /\ err = NoErr
          /\ r.samples = <<x.samples[IF arg[1] < 0 THEN Len(x.samples) + arg[1] + 1
                                      ELSE arg[1] + 1]>>
          /\ r.time = <<x.time[IF arg[1] < 0 THEN Len(x.time) + arg[1] + 1
                                ELSE arg[1] + 1]>>
    /\ (op = "spike_getitem_int" /\ ~InRangeIndex(Len(st.samples), arg[1])) =>
          (err = NoErr /\ r.samples = <<>> /\ r.time = <<>> /\ isempty(r.support))
    /\ (op = "spike_getitem_slice" /\ SliceStart(arg[1]) >= Len(st.samples)) =>
          (err = NoErr /\ r.samples = <<>> /\ r.time = <<>> /\ isempty(r.support))

\* An index past the end of an EpochArray of two epochs.
C11_Witness ==
    /\ op = "getitem_int" /\ Len(x.samples) = 2 /\ arg[1] >= 2
    /\ err = NoErr /\ isempty(r)

\* C13: x[a:b] with 0 <= a < n_epochs holds the epochs at the positions
\* a .. min(b, n_epochs) - 1 in order, where b = None stands for n_epochs, so
\* x[a:] and x[:] keep every epoch from a on; it is empty when a >= n_epochs.
C13_SliceIsSubRange ==
    op = "getitem_slice" =>
        /\ err = NoErr
        /\ IF SliceStart(arg[1]) >= Len(x.samples) THEN isempty(r)
           ELSE /\ r.samples = SubSeq(x.samples, SliceStart(arg[1]) + 1,
                                     IF arg[2] = NoBound THEN Len(x.samples)
                                     ELSE Min(arg[2][1], Len(x.samples)))
                /\ r.time = SubSeq(x.time, SliceStart(arg[1]) + 1,
                                   IF arg[2] = NoBound THEN Len(x.time)
                                   ELSE Min(arg[2][1], Len(x.time)))

(***************************************************************************)
(* SpecAlgebra: one operation of the algebra is applied to the EpochArray  *)
(* x, with y the other operand where it takes one, and then the rate of    *)
(* the object it returned is assigned.  r is what the call returned: the   *)
(* error, the value, and whether the object is a new one, x itself         *)
(* ("self") or y itself ("other").  z is <<x, y>> as they were before the  *)
(* call, and arg the arguments.                                            *)
(***************************************************************************)
InitAlgebra ==
    /\ x \in Built(MaxLen)
    /\ y = EmptyEpochArray
    /\ z = <<>> /\ r = Ok(EmptyEpochArray) /\ st = NoSpikeTrain
    /\ op = "init" /\ err = NoErr /\ arg = <<>>

\* An operation of x alone.
Applied(returned, name, a) == \E res \in {returned} :
    /\ r' = res
    /\ z' = <<x, y>>
    /\ op' = name
    /\ err' = res.err
    /\ arg' = a
    /\ UNCHANGED <<x, y, st>>

\* An operation of x with the operand other, which y holds from then on.
AppliedWith(other, returned, name, a) == \E res \in {returned} :
    /\ r' = res
    /\ y' = other
    /\ z' = <<x, other>>
    /\ op' = name
    /\ err' = res.err
    /\ arg' = a
    /\ UNCHANGED <<x, st>>

ApplyMerge ==
    op = "init" /\ \E gap \in Gaps : Applied(merge(x, gap), "merge", <<gap>>)
ApplyIntersect ==
    op = "init" /\ \E other \in Operands, b \in BOOLEAN :
        AppliedWith(other, intersect(x, other, b), "intersect", <<b>>)
ApplyJoin ==
    op = "init" /\ \E other \in Operands :
        AppliedWith(other, join(x, other), "join", <<>>)
ApplyExpand ==
    op = "init" /\ \E amount \in Amounts, d \in Directions :
        Applied(expand(x, amount, d), "expand", <<amount, d>>)
ApplyShrink ==
    op = "init" /\ \E amount \in Amounts, d \in Directions :
        Applied(shrink(x, amount, d), "shrink", <<amount, d>>)
ApplyGetInt ==
    op = "init" /\ \E i \in Indices : Applied(getitem_int(x, i), "getitem_int", <<i>>)
ApplyGetSlice ==
    op = "init" /\ \E a \in Bounds, b \in Bounds :
        Applied(getitem_slice(x, a, b), "getitem_slice", <<a, b>>)
ApplyGetEpoch ==
    op = "init" /\ \E other \in Operands :
        AppliedWith(other, getitem_epoch(x, other), "getitem_epoch", <<>>)

\* result.fs = val: the object assigned to is x or y where the call returned
\* that object.
AssignResultFs ==
    /\ op \notin {"init", "set_fs"}
    /\ r.err = NoErr
    /\ \E val \in {Scalar(1), Scalar(2)} :
         /\ Exact(r.val.samples, val.val)
         /\ r' = [r EXCEPT !.val = set_fs(r.val, val)]
         /\ x' = IF r.alias = "self" THEN set_fs(x, val) ELSE x
         /\ y' = IF r.alias = "other" THEN set_fs(y, val) ELSE y
         /\ op' = "set_fs"
         /\ arg' = <<val>>
         /\ UNCHANGED <<z, st, err>>

NextAlgebra ==
    \/ ApplyMerge
    \/ ApplyIntersect
    \/ ApplyJoin
    \/ ApplyExpand
    \/ ApplyShrink
    \/ ApplyGetInt
    \/ ApplyGetSlice
    \/ ApplyGetEpoch
    \/ AssignResultFs

SpecAlgebra == InitAlgebra /\ [][NextAlgebra]_vars

\* The amount is more than shrink allows: half of the shortest duration for
\* 'both', the shortest duration for 'start' and 'stop'.
TooLarge(e, amount, direction) ==
    \E i \in 1..Len(e.time) :
        IF direction = "both" THEN 2 * amount > e.time[i][2] - e.time[i][1]
        ELSE amount > e.time[i][2] - e.time[i][1]

\* C12: on a non-empty EpochArray shrink(amount, direction) raises "shrink
\* amount too large" when the amount is more than half of the shortest
\* duration ('both') or more than the shortest duration ('start', 'stop'),
\* as shrink(6, 'both') on [0, 10] does; otherwise it returns
\* expand(-amount, direction), where every epoch has start <= stop and is
\* shorter by amount on each chosen side.
C12_ShrinkBound ==
    /\ (op = "shrink" /\ ~isempty(x) /\ arg[2] \in {"both", "start", "stop"}) =>
          IF TooLarge(x, arg[1], arg[2]) THEN err = ErrShrink
          ELSE /\ err = NoErr
               /\ r.val = expand(x, 0 - arg[1], arg[2]).val
               /\ StartBeforeStop(r.val.time)
               /\ Len(r.val.time) = Len(x.time)
               /\ \A i \in 1..Len(x.time) :
                     /\ r.val.time[i][1] = x.time[i][1]
                            + (IF arg[2] \in {"both", "start"} THEN arg[1] ELSE 0)
                     /\ r.val.time[i][2] = x.time[i][2]
                            - (IF arg[2] \in {"both", "stop"} THEN arg[1] ELSE 0)
    /\ shrink(EpochArrayInit(Mat(<< <<0, 10>> >>), NoFs, NoDuration).val,
              6, "both").err = ErrShrink

\* Two epochs shrunk from both sides, the shorter one to a point.
C12_Witness ==
    /\ op = "shrink" /\ err = NoErr /\ arg = <<1, "both">>
    /\ Len(x.time) = 2 /\ Len(r.val.time) = 2
    /\ \E i \in 1..2 : r.val.time[i][1] = r.val.time[i][2]

\* C14: every operation leaves its operands as they were and returns a new
\* EpochArray, join with an empty operand and merge of an empty set included:
\* assigning the rate of the result changes the rate and the time of no
\* operand.
C14_OperandsUntouched ==
    op # "init" =>
        /\ r.err = NoErr => r.alias = "new"
        /\ x.samples = z[1].samples /\ x.fs = z[1].fs /\ x.time = z[1].time
        /\ y.samples = z[2].samples /\ y.fs = z[2].fs /\ y.time = z[2].time

(***************************************************************************)
(* SpecOwner: a SpikeTrain st is constructed with the support x the caller *)
(* holds, and then rates are assigned, to st and to x.  z says whether     *)
(* st.support is the object x; r is <<x, st>> as they were before the last *)
(* assignment.                                                             *)
(***************************************************************************)
\* self.support = support: the object given is kept where there are samples.
SupportShared(samples, support) == Len(samples) > 0 /\ support # NoSupport

InitOwner ==
    /\ st = NoSpikeTrain /\ x = EmptyEpochArray
    /\ y = EmptyEpochArray /\ z = FALSE /\ r = <<EmptyEpochArray, NoSpikeTrain>>
    /\ op = "new" /\ err = NoErr /\ arg = <<>>

\* st = SpikeTrain(samples, fs, support=x)
OwnerNew ==
    /\ op = "new"
    /\ \E v \in SpikeInputs, fs \in {NoFs, Scalar(1), Scalar(2)}, support \in Operands :
       \E res \in {SpikeTrainInit(v, fs, support)} :
         /\ ExactSpikeInput(v, fs)
         /\ res.err = NoErr
         /\ x' = support
         /\ st' = res.val
         /\ z' = SupportShared(v, support)
         /\ r' = <<support, res.val>>
         /\ op' = "init_support"
         /\ err' = res.err
         /\ arg' = <<v>>
         /\ UNCHANGED y

\* st.fs = val
OwnerSetSpikeFs ==
    /\ op # "new"
    /\ \E val \in SetterRates :
         /\ SetterError(val) = NoErr => ExactSpikes(st.samples, val.val)
         /\ st' = IF SetterError(val) = NoErr THEN spike_set_fs(st, val) ELSE st
         /\ r' = <<x, st>>
         /\ op' = "spike_set_fs"
         /\ err' = SetterError(val)
         /\ arg' = <<val>>
         /\ UNCHANGED <<x, y, z>>

\* x.fs = val, on the EpochArray the caller holds.
OwnerSetSupportFs ==
    /\ op # "new"
    /\ \E val \in SetterRates : \E after \in {IF SetterError(val) = NoErr
                                                  THEN set_fs(x, val) ELSE x} :
         /\ SetterError(val) = NoErr => Exact(x.samples, val.val)
         /\ x' = after
         /\ st' = IF z THEN [st EXCEPT !.support = after] ELSE st
         /\ r' = <<x, st>>
         /\ op' = "support_set_fs"
         /\ err' = SetterError(val)
         /\ arg' = <<val>>
         /\ UNCHANGED <<y, z>>

NextOwner ==
    \/ OwnerNew
    \/ OwnerSetSpikeFs
    \/ OwnerSetSupportFs

SpecOwner == InitOwner /\ [][NextOwner]_vars

\* C15: the support of a SpikeTrain built with the support S is its own:
\* assigning the rate of the SpikeTrain changes nothing of the S the caller
\* holds, and assigning the rate of S changes neither the epochs, nor the
\* rate, nor the time of the support of the SpikeTrain.
C15_SupportOwned ==
    /\ op = "spike_set_fs" => x = r[1]
    /\ op = "support_set_fs" =>
          /\ st.support.samples = r[2].support.samples
          /\ st.support.fs = r[2].support.fs
          /\ st.support.time = r[2].support.time

====
